---------------------------- MODULE Spec2Model ----------------------------
(***************************************************************************)
(* A model of nostd_cow: the two-variant container NoStdCow<'a, T, B>,     *)
(* its read access (Deref, is_borrowed, is_owned), the derived comparison  *)
(* traits, the RefCow upgrade operations (to_mut, into_owned) and the      *)
(* conversions to and from alloc::borrow::Cow.                             *)
(*                                                                         *)
(* The model instantiates T = B (the RefCow alias), the only shape for     *)
(* which to_mut and into_owned exist.  Externally owned data lives in a    *)
(* store `ext` indexed by address; a reference is a location: either an    *)
(* address of the store or the payload slot of the container itself.       *)
(***************************************************************************)
EXTENDS Integers, FiniteSets, Sequences, TLC

\* ------------------------------------------------------------------ bounds
NumRefs == 2        \* addresses of externally owned data
MaxVal == 2         \* values of kind T are 0..MaxVal
MaxPanics == 1      \* how many times T::clone may panic in one behaviour

Refs == 1..NumRefs
Values == 0..MaxVal

VARIABLES
    ext,        \* the externally owned data: address -> value
    ext0,       \* the externally owned data when the container was built
    cow,        \* the container under test
    born,       \* the container as it was constructed
    other,      \* a second container, the right-hand side of == and cmp
    pc,         \* position of the caller / inside to_mut
    tmp,        \* <<(*v).clone()>> once evaluated and not yet stored, else <<>>
    mref,       \* target of the live &mut T returned by to_mut
    stdcow,     \* the alloc::borrow::Cow a conversion produced
    orig,       \* the container on entry to the running to_mut or conversion
    cloneCalls, \* calls of T::clone made so far
    clones,     \* duplicates T::clone has produced so far
    calls0,     \* cloneCalls when the running to_mut was entered
    panics,     \* panics raised by T::clone so far
    written,    \* <<v>> for the last value stored through the &mut T, else <<>>
    last        \* the last completed operation and what it returned

vars == <<ext, ext0, cow, born, other, pc, tmp, mref, stdcow, orig,
          cloneCalls, clones, calls0, panics, written, last>>

\* ------------------------------------------------------------- data model
\* enum NoStdCow { Borrowed(&'a B), Owned(T) }
Borrowed(r) == [tag |-> "Borrowed", ref |-> r]
Owned(v) == [tag |-> "Owned", val |-> v]

\* A container that has been moved out of (consumed by value).
Moved == [tag |-> "Moved"]

\* alloc::borrow::Cow, as built by the conversions.
CowBorrowed(r) == [tag |-> "Cow::Borrowed", ref |-> r]
CowOwned(v) == [tag |-> "Cow::Owned", val |-> v]
NoCow == [tag |-> "none"]

\* Locations a reference can point at.
ExtLoc(r) == [loc |-> "ext", ref |-> r]
PayloadLoc == [loc |-> "payload"]
NoRef == [loc |-> "none"]

Containers == {Borrowed(r) : r \in Refs} \cup {Owned(v) : v \in Values}

\* Reading the value behind a location, for container c and store e.
Load(l, c, e) == IF l.loc = "ext" THEN e[l.ref] ELSE c.val

\* impl<T> Borrow<T> for T: the borrowed projection of the payload slot.
borrow(l) == l

\* T::clone: an independent value equal to the one cloned.
clone(v) == v

\* T::default()
DefaultVal == 0

\* ---------------------------------------------------------- constructors
\* impl From<&'a B> for NoStdCow
From(r) == Borrowed(r)

\* impl Default for NoStdCow
Default == Owned(DefaultVal)

\* ----------------------------------------------------------- read access
\* Deref::deref: the reference returned.
deref(c) == IF c.tag = "Borrowed" THEN ExtLoc(c.ref) ELSE borrow(PayloadLoc)

is_borrowed(c) == IF c.tag = "Borrowed" THEN TRUE ELSE FALSE

\* is_owned with the arms of is_borrowed.
is_owned_swapped(c) == IF c.tag = "Borrowed" THEN TRUE ELSE FALSE

is_owned(c) == IF c.tag = "Borrowed" THEN FALSE ELSE TRUE

\* The logical value of a container: what its dereference reads.
Value(c, e) == Load(deref(c), c, e)

\* ------------------------------------------------------------ comparison
\* #[derive(PartialEq, Eq)]: same variant, then the fields; a reference
\* field compares the data it points at.
discriminant(c) == IF c.tag = "Borrowed" THEN 0 ELSE 1

eq(a, b, e) ==
    /\ discriminant(a) = discriminant(b)
    /\ IF a.tag = "Borrowed" THEN e[a.ref] = e[b.ref] ELSE a.val = b.val

\* Ord on the integers standing for values of T.
Ordering(x, y) == IF x < y THEN "Less" ELSE IF x = y THEN "Equal" ELSE "Greater"

\* #[derive(PartialOrd, Ord)]: the variant's position first, then the fields.
cmp(a, b, e) ==
    IF discriminant(a) # discriminant(b)
    THEN Ordering(discriminant(a), discriminant(b))
    ELSE IF a.tag = "Borrowed" THEN Ordering(e[a.ref], e[b.ref])
         ELSE Ordering(a.val, b.val)

\* ------------------------------------------------------- RefCow::to_mut
\* A to_mut that takes the cloning arm whatever the variant.
to_mut_arm_always_clone(c) == "Borrowed"

\* `match *self`: the arm taken on entry.
to_mut_arm(c) == IF c.tag = "Owned" THEN "Owned" ELSE "Borrowed"

\* A to_mut that stores a fresh default value instead of the duplicate.
to_mut_clone_default(c, e) == DefaultVal

\* (*v).clone() in the Borrowed arm: the duplicate, built off to the side.
to_mut_clone(c, e) == clone(e[c.ref])

\* A to_mut whose assignment is lost: *self is left as it was.
to_mut_assign_lost(c, t) == c

\* *self = Self::Owned(<duplicate>)
to_mut_assign(c, t) == Owned(t)

\* A to_mut that moves the old state out of *self before cloning: a
\* panicking clone then leaves the container emptied.
to_mut_unwind_taken(c) == Moved

\* The container a panicking clone leaves behind: the assignment has not
\* run, so *self is what it was.
to_mut_unwind(c) == c

\* `ref mut v => v` in an Owned arm: the reference returned.
to_mut_ref(c) == PayloadLoc

\* to_mut run to its return on container c (no panic).
to_mut_run(c, e) ==
    IF c.tag = "Owned" THEN c ELSE to_mut_assign(c, to_mut_clone(c, e))

\* An into_owned that returns a default value instead of cloning.
into_owned_default(c, e) == IF c.tag = "Owned" THEN c.val ELSE DefaultVal

\* --------------------------------------------------- RefCow::into_owned
into_owned(c, e) == IF c.tag = "Owned" THEN c.val ELSE clone(e[c.ref])

\* ------------------------------------------------------ alloc conversions
into_std_cow(c) ==
    IF c.tag = "Borrowed" THEN CowBorrowed(c.ref) ELSE CowOwned(c.val)

from_std_cow(k) ==
    IF k.tag = "Cow::Borrowed" THEN Borrowed(k.ref) ELSE Owned(k.val)

\* The method From<NoStdCow> for Cow calls.  Neither NoStdCow nor its
\* Deref target B has a method of this name, so the call does not resolve
\* and the impl yields no Cow.
Unresolved == [tag |-> "unresolved method"]
to_std_cow(c) == Unresolved

\* impl From<Cow<'a, B>> for NoStdCow
FromCow(k) == from_std_cow(k)

\* impl From<NoStdCow<'a, _, B>> for Cow<'a, B>
IntoCow(c) == to_std_cow(c)

\* A store through a reference: the container and the external data after
\* `*l = v`.
Store(l, v, c, e) ==
    IF l.loc = "ext"
    THEN [c |-> c, e |-> [e EXCEPT ![l.ref] = v]]
    ELSE [c |-> [c EXCEPT !.val = v], e |-> e]

\* ------------------------------------------------------------------ state
Done(op, pre, res, outcome, ncl) ==
    [op |-> op, pre |-> pre, res |-> res, outcome |-> outcome, ncl |-> ncl]

Init ==
    /\ ext \in [Refs -> Values]
    /\ ext0 = ext
    /\ cow \in {From(r) : r \in Refs} \cup {Owned(v) : v \in Values} \cup {Default}
    /\ born = cow
    /\ other \in Containers
    /\ pc = "ready"
    /\ tmp = <<>>
    /\ mref = NoRef
    /\ stdcow = NoCow
    /\ orig = Moved
    /\ cloneCalls = 0
    /\ clones = 0
    /\ calls0 = 0
    /\ panics = 0
    /\ written = <<>>
    /\ last = Done("new", cow, cow, "returned", 0)

\* The caller holds a live container and is between calls.
Ready == pc = "ready" /\ cow.tag # "Moved"

\* *cow (Deref::deref), read by the caller.
Deref ==
    /\ Ready
    /\ last' = Done("deref", cow, [loc |-> deref(cow), val |-> Value(cow, ext)],
                    "returned", 0)
    /\ mref' = NoRef
    /\ UNCHANGED <<ext, ext0, born, cow, other, pc, tmp, stdcow, orig,
                   cloneCalls, clones, calls0, panics, written>>

IsBorrowed ==
    /\ Ready
    /\ last' = Done("is_borrowed", cow, is_borrowed(cow), "returned", 0)
    /\ mref' = NoRef
    /\ UNCHANGED <<ext, ext0, born, cow, other, pc, tmp, stdcow, orig,
                   cloneCalls, clones, calls0, panics, written>>

IsOwned ==
    /\ Ready
    /\ last' = Done("is_owned", cow, is_owned(cow), "returned", 0)
    /\ mref' = NoRef
    /\ UNCHANGED <<ext, ext0, born, cow, other, pc, tmp, stdcow, orig,
                   cloneCalls, clones, calls0, panics, written>>

\* cow == other and other == cow
Eq ==
    /\ Ready
    /\ last' = Done("eq", cow, <<eq(cow, other, ext), eq(other, cow, ext)>>,
                    "returned", 0)
    /\ mref' = NoRef
    /\ UNCHANGED <<ext, ext0, born, cow, other, pc, tmp, stdcow, orig,
                   cloneCalls, clones, calls0, panics, written>>

\* cow.cmp(&other)
Cmp ==
    /\ Ready
    /\ last' = Done("cmp", cow, cmp(cow, other, ext), "returned", 0)
    /\ mref' = NoRef
    /\ UNCHANGED <<ext, ext0, born, cow, other, pc, tmp, stdcow, orig,
                   cloneCalls, clones, calls0, panics, written>>

\* to_mut, entry: `match *self`.  The Owned arm returns at once; the
\* Borrowed arm goes on to clone.
ToMutCall ==
    /\ Ready
    /\ cloneCalls <= MaxPanics + 1
    /\ calls0' = cloneCalls
    /\ IF to_mut_arm(cow) = "Owned"
       THEN /\ mref' = to_mut_ref(cow)
            /\ last' = Done("to_mut", cow, to_mut_ref(cow), "returned", 0)
            /\ pc' = "ready"
            /\ orig' = orig
       ELSE /\ mref' = NoRef
            /\ last' = last
            /\ pc' = "to_mut_clone"
            /\ orig' = cow
    /\ UNCHANGED <<ext, ext0, born, cow, other, tmp, stdcow,
                   cloneCalls, clones, panics, written>>

\* to_mut, Borrowed arm: (*v).clone() returns the duplicate.
ToMutCloneOk ==
    /\ pc = "to_mut_clone"
    /\ tmp' = <<to_mut_clone(cow, ext)>>
    /\ cloneCalls' = cloneCalls + 1
    /\ clones' = clones + 1
    /\ pc' = "to_mut_assign"
    /\ UNCHANGED <<ext, ext0, born, cow, other, mref, stdcow, orig,
                   calls0, panics, written, last>>

\* to_mut, Borrowed arm: (*v).clone() panics and to_mut unwinds.
ToMutClonePanic ==
    /\ pc = "to_mut_clone"
    /\ panics < MaxPanics
    /\ panics' = panics + 1
    /\ cloneCalls' = cloneCalls + 1
    /\ cow' = to_mut_unwind(cow)
    /\ last' = Done("to_mut", cow, NoRef, "clone panicked", cloneCalls' - calls0)
    /\ pc' = "ready"
    /\ orig' = Moved
    /\ UNCHANGED <<ext, ext0, born, other, tmp, mref, stdcow,
                   clones, calls0, written>>

\* to_mut, Borrowed arm: *self = Self::Owned(<duplicate>)
ToMutAssign ==
    /\ pc = "to_mut_assign"
    /\ cow' = to_mut_assign(cow, tmp[1])
    /\ tmp' = <<>>
    /\ pc' = "to_mut_rematch"
    /\ UNCHANGED <<ext, ext0, born, other, mref, stdcow, orig,
                   cloneCalls, clones, calls0, panics, written, last>>

\* to_mut, Borrowed arm: the second `match *self`.
ToMutRematch ==
    /\ pc = "to_mut_rematch"
    /\ IF cow.tag = "Borrowed"
       THEN /\ mref' = NoRef
            /\ last' = Done("to_mut", orig, NoRef, "unreachable", cloneCalls - calls0)
       ELSE /\ mref' = to_mut_ref(cow)
            /\ last' = Done("to_mut", orig, to_mut_ref(cow), "returned",
                            cloneCalls - calls0)
    /\ orig' = Moved
    /\ pc' = "ready"
    /\ UNCHANGED <<ext, ext0, born, cow, other, tmp, stdcow,
                   cloneCalls, clones, calls0, panics, written>>

\* The caller stores v through the reference to_mut returned.
Write(v) ==
    /\ Ready
    /\ mref # NoRef
    /\ cow' = Store(mref, v, cow, ext).c
    /\ ext' = Store(mref, v, cow, ext).e
    /\ written' = <<v>>
    /\ last' = Done("write", cow, v, "returned", 0)
    /\ UNCHANGED <<ext0, born, other, pc, tmp, mref, stdcow, orig,
                   cloneCalls, clones, calls0, panics>>

\* into_owned, the clone (if any) returning.
IntoOwnedOk ==
    /\ Ready
    /\ cloneCalls' = IF cow.tag = "Owned" THEN cloneCalls ELSE cloneCalls + 1
    /\ clones' = IF cow.tag = "Owned" THEN clones ELSE clones + 1
    /\ last' = Done("into_owned", cow, into_owned(cow, ext), "returned",
                    cloneCalls' - cloneCalls)
    /\ cow' = Moved
    /\ mref' = NoRef
    /\ pc' = "consumed"
    /\ UNCHANGED <<ext, ext0, born, other, tmp, stdcow, orig, calls0, panics, written>>

\* into_owned on a Borrowed container whose clone panics.
IntoOwnedPanic ==
    /\ Ready
    /\ cow.tag = "Borrowed"
    /\ panics < MaxPanics
    /\ panics' = panics + 1
    /\ cloneCalls' = cloneCalls + 1
    /\ last' = Done("into_owned", cow, NoRef, "clone panicked", 1)
    /\ cow' = Moved
    /\ mref' = NoRef
    /\ pc' = "consumed"
    /\ UNCHANGED <<ext, ext0, born, other, tmp, stdcow, orig, clones, calls0, written>>

\* cow.into_std_cow()
IntoStdCow ==
    /\ Ready
    /\ stdcow' = into_std_cow(cow)
    /\ orig' = cow
    /\ cow' = Moved
    /\ mref' = NoRef
    /\ pc' = "cow"
    /\ last' = Done("into_std_cow", cow, stdcow', "returned", 0)
    /\ UNCHANGED <<ext, ext0, born, other, tmp, cloneCalls, clones, calls0, panics,
                   written>>

\* Cow::from(cow)
IntoCowFrom ==
    /\ Ready
    /\ stdcow' = IntoCow(cow)
    /\ orig' = cow
    /\ cow' = Moved
    /\ mref' = NoRef
    /\ pc' = "cow"
    /\ last' = Done("Cow::from", cow, stdcow', "returned", 0)
    /\ UNCHANGED <<ext, ext0, born, other, tmp, cloneCalls, clones, calls0, panics,
                   written>>

HaveCow == pc = "cow" /\ stdcow.tag \in {"Cow::Borrowed", "Cow::Owned"}

\* NoStdCow::from_std_cow(stdcow)
FromStdCow ==
    /\ HaveCow
    /\ cow' = from_std_cow(stdcow)
    /\ stdcow' = NoCow
    /\ pc' = "ready"
    /\ last' = Done("from_std_cow", orig, cow', "returned", 0)
    /\ orig' = Moved
    /\ UNCHANGED <<ext, ext0, born, other, tmp, mref, cloneCalls, clones, calls0,
                   panics, written>>

\* NoStdCow::from(stdcow)
FromCowFrom ==
    /\ HaveCow
    /\ cow' = FromCow(stdcow)
    /\ stdcow' = NoCow
    /\ pc' = "ready"
    /\ last' = Done("NoStdCow::from", orig, cow', "returned", 0)
    /\ orig' = Moved
    /\ UNCHANGED <<ext, ext0, born, other, tmp, mref, cloneCalls, clones, calls0,
                   panics, written>>

Next ==
    \/ Deref
    \/ IsBorrowed
    \/ IsOwned
    \/ Eq
    \/ Cmp
    \/ ToMutCall
    \/ ToMutCloneOk
    \/ ToMutClonePanic
    \/ ToMutAssign
    \/ ToMutRematch
    \/ \E v \in Values : Write(v)
    \/ IntoOwnedOk
    \/ IntoOwnedPanic
    \/ IntoStdCow
    \/ IntoCowFrom
    \/ FromStdCow
    \/ FromCowFrom

Spec == Init /\ [][Next]_vars

\* ------------------------------------------------------------- properties
ToMutStep == ToMutCall \/ ToMutCloneOk \/ ToMutClonePanic \/ ToMutAssign \/ ToMutRematch

\* C1: == is over the logical value, not the variant: in both argument
\* orders, cow == other is true exactly when their dereferenced values are
\* equal, whatever the two variants.
C1_EqOverLogicalValue ==
    last.op = "eq" =>
        /\ last.res[1] = (Value(last.pre, ext) = Value(other, ext))
        /\ last.res[2] = (Value(other, ext) = Value(last.pre, ext))

\* C2: cmp is over the logical value, not the variant: cow.cmp(&other) is
\* the ordering of their dereferenced values, whatever the two variants.
C2_CmpOverLogicalValue ==
    last.op = "cmp" =>
        last.res = Ordering(Value(last.pre, ext), Value(other, ext))

\* C3: when to_mut returns on a container that was Borrowed(r), the
\* container is Owned holding a value equal to the clone of *r, the
\* returned reference points at the container's payload and reads that
\* value, is_owned() is true and is_borrowed() is false.
C3_UpgradeCorrect ==
    (last.op = "to_mut" /\ last.outcome = "returned" /\ last.pre.tag = "Borrowed") =>
        /\ cow = Owned(clone(ext[last.pre.ref]))
        /\ cow = to_mut_run(last.pre, ext)
        /\ last.res = PayloadLoc
        /\ mref = last.res
        /\ Load(last.res, cow, ext) = clone(ext[last.pre.ref])
        /\ is_owned(cow)
        /\ ~is_borrowed(cow)

C3_Witness ==
    /\ last.op = "to_mut"
    /\ last.outcome = "returned"
    /\ last.pre.tag = "Borrowed"
    /\ cow.tag = "Owned"
    /\ pc = "ready"

\* C4: a to_mut call invokes T::clone exactly when the container was
\* Borrowed on entry (once), and never when it was Owned; on an Owned
\* container it returns a reference to the existing payload and leaves the
\* container as it was; a to_mut call that follows a returned to_mut
\* returns at once with the same reference, the container and the clone
\* counters unchanged.
C4_ClonesOnlyWhenBorrowed ==
    /\ [](last.op = "to_mut" =>
            /\ (last.ncl = 1) = (last.pre.tag = "Borrowed")
            /\ (last.ncl = 0) = (last.pre.tag = "Owned")
            /\ (last.pre.tag = "Owned" =>
                    /\ last.outcome = "returned"
                    /\ last.res = PayloadLoc
                    /\ (pc = "ready" => cow = last.pre)))
    /\ [][(ToMutCall /\ cow.tag = "Owned") =>
            /\ pc' = "ready"
            /\ cow' = cow
            /\ cloneCalls' = cloneCalls
            /\ clones' = clones
            /\ mref' = PayloadLoc
            /\ last'.op = "to_mut" /\ last'.ncl = 0]_vars
    /\ [][(ToMutCall /\ last.op = "to_mut" /\ last.outcome = "returned") =>
            /\ pc' = "ready"
            /\ cow' = cow
            /\ cloneCalls' = cloneCalls
            /\ clones' = clones
            /\ last'.op = "to_mut"
            /\ last'.res = last.res
            /\ last'.ncl = 0
            /\ Load(last'.res, cow', ext') = Load(last.res, cow, ext)]_vars

\* A second to_mut has just returned on a container the first upgraded.
C4_Witness ==
    /\ born.tag = "Borrowed"
    /\ last.op = "to_mut"
    /\ last.pre.tag = "Owned"
    /\ last.ncl = 0
    /\ cloneCalls = 1
    /\ clones = 1

\* C5: the variant only ever changes from Borrowed to Owned, and only in
\* to_mut's assignment: no step takes an Owned container to Borrowed (it
\* stays Owned until it is consumed), to_mut on a Borrowed container that
\* reaches its second match finds it Owned, and deref, is_borrowed and
\* is_owned change neither the container nor the data it refers to.
C5_OneDirectional ==
    /\ [][cow.tag = "Owned" => cow'.tag \in {"Owned", "Moved"}]_vars
    /\ [][(ToMutStep \/ Deref \/ IsBorrowed \/ IsOwned \/ \E v \in Values : Write(v)) =>
            /\ cow.tag = "Owned" => cow'.tag = "Owned"
            /\ cow'.tag # cow.tag =>
                  /\ cow.tag = "Borrowed"
                  /\ cow'.tag = "Owned"
                  /\ pc = "to_mut_assign"]_vars
    /\ [][ToMutRematch => (cow.tag = "Owned" /\ last'.pre.tag = "Borrowed")]_vars
    /\ [][(Deref \/ IsBorrowed \/ IsOwned) => (cow' = cow /\ ext' = ext)]_vars

\* An upgraded container has been written through and read again.
C5_Witness ==
    /\ born.tag = "Borrowed"
    /\ cow.tag = "Owned"
    /\ written # <<>>
    /\ last.op = "deref"

\* C6: into_owned returns the value that to_mut on a copy of the
\* container would leave readable; an Owned container gives up its held
\* value with no call of clone, a Borrowed one calls clone exactly once and
\* returns the duplicate of the referenced data.
C6_IntoOwnedEquivalence ==
    last.op = "into_owned" =>
        /\ last.outcome = "returned" =>
              last.res = Value(to_mut_run(last.pre, ext), ext)
        /\ last.pre.tag = "Owned" =>
              /\ last.outcome = "returned"
              /\ last.ncl = 0
              /\ last.res = last.pre.val
        /\ last.pre.tag = "Borrowed" =>
              /\ last.ncl = 1
              /\ last.outcome = "returned" => last.res = clone(ext[last.pre.ref])

C6_Witness ==
    /\ last.op = "into_owned"
    /\ last.outcome = "returned"
    /\ last.pre.tag = "Borrowed"
    /\ last.ncl = 1
    /\ last.res = ext[last.pre.ref]

\* C7: inside to_mut on a Borrowed container the container is the original
\* Borrowed one until the assignment and Owned with the complete duplicate
\* after it, the duplicate being built before the container is touched; a
\* panicking clone leaves the container Borrowed with its original
\* reference and nothing half-built, and unreachable!() is never reached.
C7_ValidUnderFailure ==
    /\ pc \in {"to_mut_clone", "to_mut_assign"} =>
          /\ cow = orig
          /\ cow.tag = "Borrowed"
    /\ pc = "to_mut_clone" => tmp = <<>>
    /\ pc = "to_mut_assign" => tmp = <<clone(ext[orig.ref])>>
    /\ pc = "to_mut_rematch" =>
          /\ tmp = <<>>
          /\ cow = Owned(clone(ext[orig.ref]))
    /\ (pc = "ready" /\ last.op = "to_mut" /\ last.outcome = "clone panicked") =>
          /\ cow = last.pre
          /\ cow.tag = "Borrowed"
          /\ tmp = <<>>
          /\ mref = NoRef
    /\ last.outcome # "unreachable"

C7_Witness ==
    /\ pc = "ready"
    /\ last.op = "to_mut"
    /\ last.outcome = "clone panicked"
    /\ cow.tag = "Borrowed"
    /\ panics > 0

\* C8: a Borrowed container dereferences to the reference it wraps and
\* reports is_borrowed, not is_owned; an Owned container dereferences to
\* the borrowed projection of its payload and reports is_owned, not
\* is_borrowed; the two predicates are complements in every state; From
\* builds the Borrowed container of its argument.
C8_UniformRead ==
    /\ last.op = "deref" =>
          IF last.pre.tag = "Borrowed"
          THEN /\ last.res.loc = ExtLoc(last.pre.ref)
               /\ last.res.val = ext[last.pre.ref]
          ELSE /\ last.res.loc = PayloadLoc
               /\ last.res.val = last.pre.val
    /\ last.op = "is_borrowed" => last.res = (last.pre.tag = "Borrowed")
    /\ last.op = "is_owned" => last.res = (last.pre.tag = "Owned")
    /\ cow.tag # "Moved" =>
          /\ is_borrowed(cow) = ~is_owned(cow)
          /\ is_borrowed(cow) = (cow.tag = "Borrowed")
    /\ \A r \in Refs :
          /\ deref(From(r)) = ExtLoc(r)
          /\ is_borrowed(From(r))
          /\ ~is_owned(From(r))

C8_Witness ==
    /\ last.op = "deref"
    /\ last.pre.tag = "Borrowed"
    /\ born = last.pre
    /\ last.res.loc = ExtLoc(born.ref)

\* C9: converting a container to alloc's Cow, by into_std_cow or by
\* Cow::from, gives the Cow of the same variant and payload, converting
\* back gives the container that was converted, and neither clones.
C9_RoundTrip ==
    /\ pc = "cow" =>
          /\ stdcow.tag = (IF orig.tag = "Borrowed" THEN "Cow::Borrowed" ELSE "Cow::Owned")
          /\ orig.tag = "Borrowed" => stdcow.ref = orig.ref
          /\ orig.tag = "Owned" => stdcow.val = orig.val
    /\ last.op \in {"from_std_cow", "NoStdCow::from"} =>
          /\ last.res = last.pre
          /\ pc = "ready" => cow = last.pre
    /\ last.op \in {"into_std_cow", "Cow::from", "from_std_cow", "NoStdCow::from"} =>
          last.ncl = 0

\* C10: the externally owned data never changes, whatever is written
\* through the reference to_mut returned; once a value has been written,
\* the container is Owned and it is what deref and into_owned read; and at
\* most one duplicate is ever made.
C10_Isolation ==
    /\ ext = ext0
    /\ clones <= 1
    /\ (written # <<>> /\ cow.tag # "Moved") =>
          /\ cow.tag = "Owned"
          /\ Value(cow, ext) = written[1]
    /\ (written # <<>> /\ last.op = "deref") => last.res.val = written[1]
    /\ (written # <<>> /\ last.op = "into_owned") =>
          /\ last.outcome = "returned"
          /\ last.res = written[1]
          /\ last.ncl = 0

\* A container born Borrowed has been upgraded, written with a value that
\* differs from the referenced data, and read back.
C10_Witness ==
    /\ born.tag = "Borrowed"
    /\ written # <<>>
    /\ written[1] # ext[born.ref]
    /\ last.op = "deref"
    /\ last.res.val = written[1]
    /\ clones = 1

=============================================================================
